---- MODULE Spec2Model ----
(***************************************************************************)
(* Tabular TD(0) control (SarsaAgent, QLearningAgent, ExpectedSarsaAgent)  *)
(* on the WindyGridWorld of 6_Temporal_Difference_Learning.ipynb.          *)
(*                                                                         *)
(* Python floats are modelled as exact rationals <<num, den>> (den > 0,    *)
(* lowest terms), so equality of two table entries is equality of tuples.  *)
(* A draw of np.random.choice is a nondeterministic choice among the       *)
(* entries of positive probability.                                        *)
(***************************************************************************)
EXTENDS Integers, Sequences, FiniteSets, TLC

VARIABLES
    env,              \* class of the environment object handed to the agent
    kind,             \* class of the agent
    discount_factor,  \* self.discount_factor
    alpha,            \* self.alpha
    epsilon,          \* self.epsilon
    Q,                \* self.Q[(state, action)], held as Q[state][action]
    policy,           \* self.policy[(state, action)], as policy[state][action]
    num_samples,      \* learn's argument
    initial_state,    \* learn's argument
    ep,               \* iterations of learn's for loop started so far
    S,                \* learn's local S
    A,                \* learn's local A
    pc,               \* "for" | "while" | "done" | "raised" | "sample"
    err,              \* "" or the exception that left learn
    state,            \* sample's local state
    result,           \* sample's local result
    selOn,            \* argument of the latest _choose_action call
    selLag,           \* _update_policy calls completed since A was drawn
    execLag,          \* the same count for the action executed last, at the
                      \* moment it was executed (NoLag: none in this episode)
    ex,               \* (S, A) handed to execute_action by the latest step
    visited,          \* every (S, A) handed to execute_action so far
    steps             \* iterations of learn's while loop run so far

vars == <<env, kind, discount_factor, alpha, epsilon, Q, policy, num_samples,
          initial_state, ep, S, A, pc, err, state, result, selOn, selLag,
          execLag, ex, visited, steps>>

agentVars == <<env, kind, discount_factor, alpha, epsilon>>
sampleVars == <<state, result>>
traceVars == <<selOn, selLag, execLag, ex>>

\* Bounds of the model.
MaxSteps == 5
MaxSamples == 2

NoState == <<>>
NoAction == "NONE"
NoPair == <<>>
NoLag == 0 - 1

(***************************************************************************)
(* Exact rational arithmetic.  The operations are functions, so that TLC   *)
(* evaluates each operand once, also inside ENABLED.                       *)
(***************************************************************************)
Abs(x) == IF x < 0 THEN -x ELSE x

GCD[a \in Nat, b \in Nat] == IF b = 0 THEN a ELSE GCD[b, a % b]

Rationals == Int \X Nat
Reduce[n \in Int, d \in Nat] == <<n \div GCD[Abs(n), d], d \div GCD[Abs(n), d]>>
Sum[x \in Rationals, y \in Rationals] ==
    LET g == GCD[x[2], y[2]]
    IN  Reduce[x[1] * (y[2] \div g) + y[1] * (x[2] \div g), (x[2] \div g) * y[2]]
Product[x \in Rationals, y \in Rationals] ==
    LET g1 == GCD[Abs(x[1]), y[2]]
        g2 == GCD[Abs(y[1]), x[2]]
    IN  <<(x[1] \div g1) * (y[1] \div g2), (x[2] \div g2) * (y[2] \div g1)>>
Less[x \in Rationals, y \in Rationals] ==
    IF x[2] = y[2] THEN x[1] < y[1]
    ELSE LET g == GCD[x[2], y[2]]
         IN  x[1] * (y[2] \div g) < y[1] * (x[2] \div g)

Rat(n, d) == Reduce[n, d]
RInt(n) == <<n, 1>>
RZero == RInt(0)
ROne == RInt(1)
RAdd(x, y) == Sum[x, y]
RNeg(x) == Product[RInt(0 - 1), x]
RSub(x, y) == Sum[x, RNeg(y)]
RMul(x, y) == Product[x, y]
RDivInt(x, n) == Product[x, Reduce[1, n]]
RLess(x, y) == Less[x, y]

(***************************************************************************)
(* The reference environment: R, wind, WindyGridWorld.                     *)
(***************************************************************************)
rewards == << <<0, 0, 0, 0, 0, 0>>,
              <<0, 0, 0, 0, 1, 0>>,
              <<0, 0, 0, 0, 0, 0>> >>
wind == <<0, 0, 1, 1, 1, 0>>

\* n, m = rewards.shape
n_rows == Len(rewards)
m_cols == Len(rewards[1])
max_down == n_rows - 1
max_right == m_cols - 1

UP == "UP"
DOWN == "DOWN"
LEFT == "LEFT"
RIGHT == "RIGHT"
\* self.ACTIONS
ActionList == <<UP, DOWN, LEFT, RIGHT>>
ActionSet == {ActionList[k] : k \in 1..Len(ActionList)}

\* list(product(range(n), range(m))): row-major order
get_states == [k \in 1..(n_rows * m_cols) |->
                 <<(k - 1) \div m_cols, (k - 1) % m_cols>>]
States == {get_states[k] : k \in 1..Len(get_states)}

Max2(a, b) == IF a < b THEN b ELSE a
Min2(a, b) == IF a < b THEN a ELSE b

is_terminal_state(s) == rewards[s[1] + 1][s[2] + 1] > 0

\* WindyGridWorld.get_possible_actions, in the order of the appends
get_possible_actions(s) ==
    (IF s[1] > 0 THEN <<UP>> ELSE <<>>) \o
    (IF s[1] < max_down THEN <<DOWN>> ELSE <<>>) \o
    (IF s[2] > 0 THEN <<LEFT>> ELSE <<>>) \o
    (IF s[2] < max_right THEN <<RIGHT>> ELSE <<>>)

SeqSet(seq) == {seq[k] : k \in 1..Len(seq)}

\* execute_action without its line i -= self.wind[j]: the fault that
\* NeverVisited is tested against
execute_action_no_wind(s, a) ==
    LET i1 == IF a = UP THEN s[1] - 1 ELSE IF a = DOWN THEN s[1] + 1 ELSE s[1]
        j1 == IF a = LEFT THEN s[2] - 1 ELSE IF a = RIGHT THEN s[2] + 1 ELSE s[2]
        i3 == Max2(0, Min2(i1, max_down))
        j3 == Max2(0, Min2(j1, max_right))
    IN  <<(<<i3, j3>>), rewards[i3 + 1][j3 + 1] - 1>>

\* WindyGridWorld.execute_action: <<new state, reward>>
execute_action(s, a) ==
    LET i1 == IF a = UP THEN s[1] - 1 ELSE IF a = DOWN THEN s[1] + 1 ELSE s[1]
        j1 == IF a = LEFT THEN s[2] - 1 ELSE IF a = RIGHT THEN s[2] + 1 ELSE s[2]
        i2 == i1 - wind[j1 + 1]
        i3 == Max2(0, Min2(i2, max_down))
        j3 == Max2(0, Min2(j1, max_right))
    IN  <<(<<i3, j3>>), rewards[i3 + 1][j3 + 1] - 1>>

WindyGridWorld == "WindyGridWorld"
\* An ObservableEnvironment whose terminal states report no legal action:
\* the same grid, with get_possible_actions returning [] where
\* is_terminal_state holds.
AbsorbingGridWorld == "AbsorbingGridWorld"
Envs == {WindyGridWorld, AbsorbingGridWorld}

\* self.env.get_possible_actions(s) of an environment of class e
env_possible_actions(e, s) ==
    IF e = AbsorbingGridWorld /\ is_terminal_state(s)
    THEN <<>>
    ELSE get_possible_actions(s)

\* The environments are stateless: their answers are tabulated once.
ActionsTable == [e \in Envs |-> [s \in States |-> env_possible_actions(e, s)]]
GridPairs == {p \in States \X ActionSet : p[2] \in SeqSet(get_possible_actions(p[1]))}
ExecTable == [p \in GridPairs |-> execute_action(p[1], p[2])]

\* self.env.get_possible_actions(s) and self.env.execute_action(s, a) of the
\* agent's environment
PossibleActions(s) == ActionsTable[env][s]
Legal(s) == SeqSet(PossibleActions(s))
ExecuteAction(s, a) == ExecTable[<<s, a>>]

(***************************************************************************)
(* SarsaAgent and its subclasses.                                          *)
(***************************************************************************)
SarsaAgent == "SarsaAgent"
QLearningAgent == "QLearningAgent"
ExpectedSarsaAgent == "ExpectedSarsaAgent"
Kinds == {SarsaAgent, QLearningAgent, ExpectedSarsaAgent}

ValueError == "ValueError"

\* SarsaAgent.__init__: the tables after construction, one entry per state
\* and legal action
InitQ == [s \in States |-> [a \in Legal(s) |-> RZero]]
InitPolicy == [s \in States |->
                 [a \in Legal(s) |-> RDivInt(ROne, Len(PossibleActions(s)))]]

\* sum of the entries of a table row over a list of actions, left to right
RECURSIVE SumOver(_, _, _)
SumOver(row, actions, k) ==
    IF k > Len(actions) THEN RZero
    ELSE RAdd(row[actions[k]], SumOver(row, actions, k + 1))

\* np.random.choice(actions, p=ps) raises ValueError on an empty list and on
\* probabilities that do not sum to 1.
ChoiceRaises(pol, s) ==
    \/ PossibleActions(s) = <<>>
    \/ SumOver(pol[s], PossibleActions(s), 1) # ROne

\* _choose_action returning only an action of the highest probability: the
\* fault that LearnTerminates is tested against
ChoiceSetGreedy(pol, s) ==
    {a \in Legal(s) : \A b \in Legal(s) : ~RLess(pol[s][a], pol[s][b])}

\* The actions _choose_action(s) can return: those of positive probability.
ChoiceSet(pol, s) == {a \in Legal(s) : RLess(RZero, pol[s][a])}

\* Iteration order of a CPython 2 dict keyed by the four action strings (the
\* notebook is Python 2): DOWN, RIGHT, UP, LEFT by the low bits of their
\* hashes, whatever subset of the four is present.
DictOrder == <<DOWN, RIGHT, UP, LEFT>>

\* QA.items() for state s, in dict iteration order
ItemsTable == [e \in Envs |-> [s \in States |->
    SelectSeq(DictOrder, LAMBDA a : a \in SeqSet(ActionsTable[e][s]))]]
QAItems(s) == ItemsTable[env][s]

\* max(items, key=itemgetter(1)) over the first k items: the index of the
\* first item that no other exceeds (a later item replaces the best so far
\* only when it is strictly greater)
RECURSIVE MaxIndex(_, _, _)
MaxIndex(qa, items, k) ==
    IF k = 1 THEN 1
    ELSE LET b == MaxIndex(qa, items, k - 1)
         IN  IF RLess(qa[items[b]], qa[items[k]]) THEN k ELSE b

\* SarsaAgent._find_best_action (defined only where s has a legal action;
\* max() of an empty list raises ValueError)
_find_best_action(q, s) ==
    QAItems(s)[MaxIndex(q[s], QAItems(s), Len(QAItems(s)))]

\* Position of state s in get_states (1-based).
StateIndex(s) == s[1] * m_cols + s[2] + 1

\* _update_policy's loop body without its last line, the += 1 - epsilon for
\* the best action: the fault that PolicySumsToOne is tested against
RefreshedNoGreedyMass(q, pol, s) ==
    [a \in Legal(s) |-> RDivInt(epsilon, Len(PossibleActions(s)))]

\* The entries policy[(s, .)] once _update_policy's loop has run for state s:
\* epsilon / num_actions, plus 1 - epsilon for the best action.
Refreshed(q, pol, s) ==
    LET num_actions == Len(PossibleActions(s))
        best_action == _find_best_action(q, s)
        base == RDivInt(epsilon, num_actions)
        top == RAdd(base, RSub(ROne, epsilon))
    IN  [a \in Legal(s) |-> IF a = best_action THEN top ELSE base]

\* The first state of get_states at which _find_best_action raises (a state
\* without legal actions), or Len(get_states) + 1.
FirstRaisingTable == [e \in Envs |->
    LET bad == {k \in 1..Len(get_states) : ActionsTable[e][get_states[k]] = <<>>}
    IN  IF bad = {} THEN Len(get_states) + 1
        ELSE CHOOSE k \in bad : \A l \in bad : k <= l]
FirstRaising == FirstRaisingTable[env]

\* _update_policy refreshing the state whose entry was just updated and no
\* other: the fault that WholeTableEpsilonGreedy is tested against
UpdateVisitedOnly(q, pol) ==
    [err |-> "",
     policy |-> [s \in States |-> IF s = S THEN Refreshed(q, pol, s) ELSE pol[s]]]

\* SarsaAgent._update_policy: the states are refreshed in get_states order;
\* an exception leaves the later states as they were.
_update_policy(q, pol) ==
    [err |-> IF FirstRaising <= Len(get_states) THEN ValueError ELSE "",
     policy |-> [s \in States |->
                    IF StateIndex(s) < FirstRaising
                    THEN Refreshed(q, pol, s) ELSE pol[s]]]

\* the update with discount_factor left out of the target: the fault that
\* BlendedUpdate is tested against
TDUpdateNoDiscount(q, s, a, R, est) ==
    [q EXCEPT ![s][a] =
        RAdd(q[s][a], RMul(alpha, RSub(RAdd(RInt(R), est), q[s][a])))]

\* Q[(S, A)] += alpha * (R + discount_factor * est - Q[(S, A)])
TDUpdate(q, s, a, R, est) ==
    [q EXCEPT ![s][a] =
        RAdd(q[s][a],
             RMul(alpha, RSub(RAdd(RInt(R), RMul(discount_factor, est)),
                              q[s][a])))]

\* What a call of _inner_learn leaves behind.  draw is the outcome of its one
\* np.random.choice; ok says that the policy allows that outcome.
Raised(sel, pair) ==
    [ok |-> TRUE, err |-> ValueError, Q |-> Q, S |-> S, A |-> A,
     sel |-> sel, ex |-> pair, lag |-> execLag]

\* SarsaAgent._inner_learn writing to Q[(S_next, A_next)] instead of
\* Q[(S, A)]: the fault that OnlyExecutedPairChanges is tested against
SarsaUpdatesNextPair(draw) ==
    LET t == ExecuteAction(S, A)
        S_next == t[1]
        R == t[2]
    IN  IF ChoiceRaises(policy, S_next) THEN Raised(S_next, <<S, A>>)
        ELSE IF draw \notin Legal(S_next)
        THEN [Raised(S_next, <<S, A>>) EXCEPT !.ok = FALSE]
        ELSE [ok |-> draw \in ChoiceSet(policy, S_next), err |-> "",
              Q |-> TDUpdate(Q, S_next, draw, R, Q[S][A]),
              S |-> S_next, A |-> draw,
              sel |-> S_next, ex |-> <<S, A>>, lag |-> selLag]

\* SarsaAgent._inner_learn(S, A)
SarsaInnerLearn(draw) ==
    LET t == ExecuteAction(S, A)
        S_next == t[1]
        R == t[2]
    IN  IF ChoiceRaises(policy, S_next) THEN Raised(S_next, <<S, A>>)
        ELSE IF draw \notin Legal(S_next)
        THEN [Raised(S_next, <<S, A>>) EXCEPT !.ok = FALSE]
        ELSE [ok |-> draw \in ChoiceSet(policy, S_next), err |-> "",
              Q |-> TDUpdate(Q, S, A, R, Q[S_next][draw]),
              S |-> S_next, A |-> draw,
              sel |-> S_next, ex |-> <<S, A>>, lag |-> selLag]

\* QLearningAgent._inner_learn(S, A)
QLearningInnerLearn(draw) ==
    IF ChoiceRaises(policy, S) THEN Raised(S, NoPair)
    ELSE IF draw \notin Legal(S) THEN [Raised(S, NoPair) EXCEPT !.ok = FALSE]
    ELSE LET t == ExecuteAction(S, draw)
             S_next == t[1]
             R == t[2]
         IN  IF PossibleActions(S_next) = <<>>
             THEN [Raised(S, <<S, draw>>) EXCEPT !.lag = 0]
             ELSE [ok |-> draw \in ChoiceSet(policy, S), err |-> "",
                   Q |-> TDUpdate(Q, S, draw, R,
                                  Q[S_next][_find_best_action(Q, S_next)]),
                   S |-> S_next, A |-> draw,
                   sel |-> S, ex |-> <<S, draw>>, lag |-> 0]

\* the loop of ExpectedSarsaAgent._inner_learn over the actions of S_next
RECURSIVE ExpectedNextValue(_, _, _)
ExpectedNextValue(s, actions, k) ==
    IF k > Len(actions) THEN RZero
    ELSE RAdd(RMul(policy[s][actions[k]], Q[s][actions[k]]),
              ExpectedNextValue(s, actions, k + 1))

\* ExpectedSarsaAgent._inner_learn(S, A)
ExpectedSarsaInnerLearn(draw) ==
    LET t == ExecuteAction(S, A)
        S_next == t[1]
        R == t[2]
    IN  IF ChoiceRaises(policy, S_next) THEN Raised(S_next, <<S, A>>)
        ELSE [ok |-> draw \in ChoiceSet(policy, S_next), err |-> "",
              Q |-> TDUpdate(Q, S, A, R,
                       ExpectedNextValue(S_next, PossibleActions(S_next), 1)),
              S |-> S_next, A |-> draw,
              sel |-> S_next, ex |-> <<S, A>>, lag |-> selLag]

\* the call when no subclass overrides _inner_learn: the fault that
\* ExecutedActionAge is tested against
InnerLearnNoOverride(draw) == SarsaInnerLearn(draw)

\* self._inner_learn(S, A): dispatch on the agent's class
InnerLearn(draw) ==
    IF kind = QLearningAgent THEN QLearningInnerLearn(draw)
    ELSE IF kind = ExpectedSarsaAgent THEN ExpectedSarsaInnerLearn(draw)
    ELSE SarsaInnerLearn(draw)

(***************************************************************************)
(* learn(num_samples, initial_state), one action per loop event.           *)
(***************************************************************************)
\* for _ in range(num_samples): S = initial_state; A = self._choose_action(S)
LearnFor ==
    /\ pc = "for"
    /\ ep < num_samples
    /\ ep' = ep + 1
    /\ S' = initial_state
    /\ selOn' = initial_state
    /\ IF ChoiceRaises(policy, initial_state)
       THEN /\ pc' = "raised"
            /\ err' = ValueError
            /\ UNCHANGED <<A, selLag, execLag>>
       ELSE /\ \E a \in ChoiceSet(policy, initial_state) : A' = a
            /\ pc' = "while"
            /\ selLag' = 0
            /\ execLag' = NoLag
            /\ UNCHANGED err
    /\ UNCHANGED <<agentVars, Q, policy, num_samples, initial_state, sampleVars,
                   ex, visited, steps>>

\* One iteration of the while loop: S, A = self._inner_learn(S, A), then
\* self._update_policy().
WhileBody ==
    /\ pc = "while"
    /\ ~is_terminal_state(S)
    /\ \E draw \in ActionSet :
         \E r \in {InnerLearn(draw)} :
           /\ r.ok
           /\ \E u \in {_update_policy(r.Q, policy)} :
             /\ Q' = r.Q
             /\ selOn' = r.sel
             /\ ex' = r.ex
             /\ execLag' = r.lag
             /\ IF r.err # ""
                THEN /\ pc' = "raised"
                     /\ err' = r.err
                     /\ UNCHANGED <<S, A, policy, selLag>>
                ELSE /\ S' = r.S
                     /\ A' = r.A
                     /\ policy' = u.policy
                     /\ err' = u.err
                     /\ pc' = IF u.err # "" THEN "raised" ELSE "while"
                     /\ selLag' = IF u.err # "" THEN 0 ELSE 1
    /\ UNCHANGED <<agentVars, num_samples, initial_state, ep, sampleVars>>

WhileStep ==
    /\ steps < MaxSteps
    /\ WhileBody
    /\ steps' = steps + 1
    /\ visited' = IF ex' = NoPair THEN visited ELSE visited \cup {ex'}

\* while not self.env.is_terminal_state(S): the test fails
WhileExit ==
    /\ pc = "while"
    /\ is_terminal_state(S)
    /\ pc' = "for"
    /\ UNCHANGED <<agentVars, Q, policy, num_samples, initial_state, ep, S, A,
                   err, sampleVars, traceVars, visited, steps>>

\* range(num_samples) is exhausted: learn returns
LearnReturn ==
    /\ pc = "for"
    /\ ep = num_samples
    /\ pc' = "done"
    /\ UNCHANGED <<agentVars, Q, policy, num_samples, initial_state, ep, S, A,
                   err, sampleVars, traceVars, visited, steps>>

\* The while loop of learn when its length is left unbounded.
WhileStepFair ==
    /\ WhileBody
    /\ UNCHANGED <<steps, visited>>

(***************************************************************************)
(* ObservableEnvironment.sample(policy, state): follow the policy until a  *)
(* terminal state is reached.  The variable policy holds the argument.     *)
(***************************************************************************)
\* One iteration of sample's while loop.  A walk under a deterministic policy
\* that has made as many moves as there are states has been to some state
\* twice and never ends; it is cut there.
SampleStep ==
    /\ pc = "sample"
    /\ ~is_terminal_state(state)
    /\ Len(result) < Len(get_states)
    /\ IF ChoiceRaises(policy, state)
       THEN /\ pc' = "raised"
            /\ err' = ValueError
            /\ UNCHANGED <<state, result>>
       ELSE /\ \E action \in ChoiceSet(policy, state) :
                \E t \in {ExecuteAction(state, action)} :
                   /\ result' = Append(result, <<state, action, t[2]>>)
                   /\ state' = t[1]
            /\ UNCHANGED <<pc, err>>
    /\ UNCHANGED <<agentVars, Q, policy, num_samples, initial_state, ep, S, A,
                   traceVars, visited, steps>>

\* sample's loop test fails: return result
SampleReturn ==
    /\ pc = "sample"
    /\ is_terminal_state(state)
    /\ pc' = "done"
    /\ UNCHANGED <<agentVars, Q, policy, num_samples, initial_state, ep, S, A,
                   err, sampleVars, traceVars, visited, steps>>

(***************************************************************************)
(* Inputs.                                                                 *)
(***************************************************************************)
\* The constructor arguments tried: the defaults of __init__, and a second
\* set in which no two of the quantities coincide.  Under either of them the
\* entries of ExpectedSarsaAgent's table outgrow TLC's 32-bit integers within
\* a few steps (each step multiplies the denominator by that of alpha, of
\* discount_factor and of a probability), so that agent is given two sets
\* of halves instead.
DefaultParams == [discount_factor |-> RInt(1), alpha |-> Rat(2, 5),
                  epsilon |-> Rat(1, 20)]
OtherParams == [discount_factor |-> Rat(1, 2), alpha |-> Rat(3, 4),
                epsilon |-> Rat(1, 4)]
HalfParams == [discount_factor |-> RInt(1), alpha |-> Rat(1, 2),
               epsilon |-> Rat(1, 2)]
UniformParams == [discount_factor |-> Rat(1, 2), alpha |-> Rat(1, 2),
                  epsilon |-> RInt(1)]
ParamsOf(k) == IF k = ExpectedSarsaAgent THEN {HalfParams, UniformParams}
               ELSE {DefaultParams, OtherParams}
Configs == {c \in Kinds \X {DefaultParams, OtherParams, HalfParams, UniformParams} :
              c[2] \in ParamsOf(c[1])}

\* The defaults with a learning rate of zero: the Q table never changes, so
\* that learn has finitely many states however long it runs.
FrozenParams == [DefaultParams EXCEPT !.alpha = RZero]
FrozenConfigs == Kinds \X {FrozenParams}

\* the notebook's start state, and the one state is_terminal_state accepts
Start == <<0, 0>>
Goal == CHOOSE s \in States : is_terminal_state(s)

\* the start states tried: the notebook's, a neighbour of the goal, the goal
StartStates == {Start, <<2, 5>>, Goal}

\* The agent just constructed, learn just called.
Constructed(e, configs, starts, ns) ==
    /\ env = e
    /\ \E c \in configs : /\ kind = c[1]
                          /\ discount_factor = c[2].discount_factor
                          /\ alpha = c[2].alpha
                          /\ epsilon = c[2].epsilon
    /\ Q = InitQ
    /\ policy = InitPolicy
    /\ num_samples \in ns
    /\ initial_state \in starts
    /\ ep = 0
    /\ S = NoState
    /\ A = NoAction
    /\ pc = "for"
    /\ err = ""
    /\ state = NoState
    /\ result = <<>>
    /\ selOn = NoState
    /\ selLag = 0
    /\ execLag = NoLag
    /\ ex = NoPair
    /\ visited = {}
    /\ steps = 0

(***************************************************************************)
(* learn on the reference environment, at most MaxSteps steps long.        *)
(***************************************************************************)
Init == Constructed(WindyGridWorld, Configs, StartStates, 1..MaxSamples)

Next == LearnFor \/ WhileStep \/ WhileExit \/ LearnReturn

Spec == Init /\ [][Next]_vars

(***************************************************************************)
(* learn from (0, 0) on the reference environment, of any length, under    *)
(* fair sampling: the interpreter keeps running, and an action that the    *)
(* policy allows again and again in a state is drawn there again and again.*)
(***************************************************************************)
InitFair == Constructed(WindyGridWorld, FrozenConfigs, {Start}, 1..MaxSamples)

NextFair == LearnFor \/ WhileStepFair \/ WhileExit \/ LearnReturn

\* _choose_action(s) returns a
Draw(s, a) == (LearnFor \/ WhileStepFair) /\ selOn' = s /\ A' = a

\* the states from which at most k moves lead to the goal
RECURSIVE Within(_)
Within(k) ==
    IF k = 0 THEN {Goal}
    ELSE LET W == Within(k - 1)
         IN  W \cup {s \in States : \E a \in SeqSet(get_possible_actions(s)) :
                                       ExecTable[<<s, a>>][1] \in W}

\* the number of moves of a shortest way from s to the goal
Distance == [s \in Within(Len(get_states)) |->
                CHOOSE k \in 0..Len(get_states) :
                    /\ s \in Within(k)
                    /\ k = 0 \/ s \notin Within(k - 1)]

\* the largest of these numbers
Farthest ==
    CHOOSE d \in 0..Len(get_states) :
        /\ \E s \in DOMAIN Distance : Distance[s] = d
        /\ \A s \in DOMAIN Distance : Distance[s] <= d

\* the state that the next call of _choose_action is about, known before the
\* step that makes the call: initial_state in learn's for loop, S inside
\* QLearningAgent._inner_learn, S_next inside the other two
NextDrawAt ==
    IF pc = "for" THEN initial_state
    ELSE IF kind = QLearningAgent THEN S
    ELSE ExecuteAction(S, A)[1]

\* _choose_action returns, in a state d moves away from the goal, an action
\* that leads to a state less than d moves away: Draw(s, a) for some such s
\* and a.  The first conjunct follows from the others; it lets TLC skip the
\* step where the action is disabled.
DrawCloser(d) ==
    /\ pc \in {"for", "while"} /\ Distance[NextDrawAt] = d
    /\ LearnFor \/ WhileStepFair
    /\ Distance[selOn'] = d
    /\ Distance[ExecTable[<<selOn', A'>>][1]] < d

\* Fair sampling is strong fairness of every single Draw(s, a).  It implies
\* strong fairness of each DrawCloser(d), a disjunction of finitely many of
\* them, which is all that is assumed here (and which keeps the number of
\* fairness conditions that TLC has to combine small).
FairSpec ==
    /\ InitFair
    /\ [][NextFair]_vars
    /\ WF_vars(NextFair)
    /\ \A d \in 1..Farthest : SF_vars(DrawCloser(d))

(***************************************************************************)
(* learn on an environment whose terminal state reports no legal action.   *)
(***************************************************************************)
InitAbsorbing == Constructed(AbsorbingGridWorld, Configs, States, 1..MaxSamples)

NextAbsorbing == LearnFor \/ WhileStep

AbsorbingSpec == InitAbsorbing /\ [][NextAbsorbing]_vars

(***************************************************************************)
(* env.sample(greedy, s) for the greedy policy that draw_policy printed    *)
(* after the 10000 episodes of the notebook, from every state s.           *)
(***************************************************************************)
\* the three rows printed by draw_policy(sarsa_agent, 3, 6)
PrintedPolicy == << <<RIGHT, RIGHT, RIGHT, RIGHT, RIGHT, DOWN>>,
                    <<RIGHT, RIGHT, RIGHT, DOWN, DOWN, DOWN>>,
                    <<RIGHT, RIGHT, RIGHT, RIGHT, RIGHT, LEFT>> >>
Printed(s) == PrintedPolicy[s[1] + 1][s[2] + 1]

\* the policy table that puts probability 1 on the printed action
GreedyPrinted == [s \in States |->
                    [a \in Legal(s) |-> IF a = Printed(s) THEN ROne ELSE RZero]]

\* env.sample(GreedyPrinted, initial_state) just called; the agent it was
\* read from is at rest
InitSample ==
    /\ env = WindyGridWorld
    /\ kind = SarsaAgent
    /\ discount_factor = DefaultParams.discount_factor
    /\ alpha = DefaultParams.alpha
    /\ epsilon = DefaultParams.epsilon
    /\ Q = InitQ
    /\ policy = GreedyPrinted
    /\ num_samples = 0
    /\ initial_state \in States
    /\ ep = 0
    /\ S = NoState
    /\ A = NoAction
    /\ pc = "sample"
    /\ err = ""
    /\ state = initial_state
    /\ result = <<>>
    /\ selOn = NoState
    /\ selLag = 0
    /\ execLag = NoLag
    /\ ex = NoPair
    /\ visited = {}
    /\ steps = 0

NextSample == SampleStep \/ SampleReturn

SampleSpec == InitSample /\ [][NextSample]_vars

(***************************************************************************)
(* Properties.                                                             *)
(***************************************************************************)
\* the action that the step now being taken hands to execute_action:
\* QLearningAgent draws it inside the step and returns it, the other two
\* agents are handed it
Executed == IF kind = QLearningAgent THEN A' ELSE A

\* the step is one iteration of learn's while loop
IsStep == steps' = steps + 1

\* C1: for every state the environment enumerates, the policy's entries
\* over the state's legal actions sum to 1, after construction and after
\* every _update_policy of learn, for each of the three agents.
PolicySumsToOne ==
    \A s \in States : SumOver(policy[s], PossibleActions(s), 1) = ROne

\* two steps have been taken and the policy is no longer the constructor's
PolicyRefreshedTwice == steps >= 2 /\ policy # InitPolicy

\* the epsilon-greedy table for the Q table q
EpsilonGreedy(q) ==
    [s \in States |-> [a \in Legal(s) |->
        IF a = _find_best_action(q, s)
        THEN RAdd(RSub(ROne, epsilon), RDivInt(epsilon, Len(PossibleActions(s))))
        ELSE RDivInt(epsilon, Len(PossibleActions(s)))]]

\* C2: after every step of learn the whole policy table, not only the row
\* of the state just visited, is epsilon-greedy for the current Q table:
\* (1 - epsilon) + epsilon/|A(s)| at _find_best_action(s), epsilon/|A(s)| at
\* every other legal action of s.
WholeTableEpsilonGreedy == steps > 0 => policy = EpsilonGreedy(Q)

\* learning has moved the best action of a state other than the current one
\* and other than the one updated last
BestActionMoved ==
    /\ steps >= 2
    /\ \E s \in States \ {S, ex[1]} :
          _find_best_action(Q, s) # _find_best_action(InitQ, s)

\* the largest of the values q[s][a] over the legal actions a of s
MaxOver(q, s) ==
    CHOOSE v \in {q[s][a] : a \in Legal(s)} :
        \A a \in Legal(s) : ~RLess(v, q[s][a])

\* the successor estimate of each agent, from the tables before the update
SuccessorEstimate(s_next, a_next) ==
    IF kind = SarsaAgent THEN Q[s_next][a_next]
    ELSE IF kind = QLearningAgent THEN MaxOver(Q, s_next)
    ELSE SumOver([a \in Legal(s_next) |-> RMul(policy[s_next][a], Q[s_next][a])],
                 PossibleActions(s_next), 1)

\* C3: in all three agents a step blends the old value of the executed pair
\* with the target, Q[S,A] := (1 - alpha) Q[S,A] + alpha (R + discount_factor
\* est), for (S_next, R) the outcome of executing A in S; est is Q[S_next,
\* A_next] for the A_next drawn at S_next and executed next (SarsaAgent), the
\* maximum of Q[S_next, .] with A drawn at S within the step
\* (QLearningAgent), the policy-weighted sum of Q[S_next, .]
\* (ExpectedSarsaAgent), all read before the update.
BlendedUpdate ==
    [][IsStep =>
        LET t == ExecuteAction(S, Executed)
            est == SuccessorEstimate(t[1], A')
        IN  /\ ex' = <<S, Executed>>
            /\ S' = t[1]
            /\ Executed \in ChoiceSet(policy, S)
            /\ kind # QLearningAgent => A' \in ChoiceSet(policy, S')
            /\ Q'[S][Executed] =
                  RAdd(RMul(RSub(ROne, alpha), Q[S][Executed]),
                       RMul(alpha, RAdd(RInt(t[2]), RMul(discount_factor, est))))
      ]_vars

\* the step taken last led from another state to a state all of whose
\* entries had been learned: whichever the agent, its estimate was not 0
NonZeroEstimateUsed ==
    /\ steps >= 2
    /\ ex # NoPair
    /\ ex[1] # S
    /\ Q[ex[1]][ex[2]] # RZero
    /\ \A a \in Legal(S) : Q[S][a] # RZero

\* C4: a step changes at most the one entry Q[S,A] of the non-terminal
\* current state S and the action A executed in it; so every pair never
\* executed, every pair of a terminal state among them, still holds 0.
OnlyExecutedPairChanges ==
    /\ [][\A s \in States : \A a \in Legal(s) :
            Q'[s][a] # Q[s][a] =>
                /\ IsStep
                /\ s = S
                /\ a = Executed
                /\ ~is_terminal_state(S)
                /\ ex' = <<s, a>>]_vars
    /\ [](\A s \in States : \A a \in Legal(s) :
            (is_terminal_state(s) \/ <<s, a>> \notin visited) => Q[s][a] = RZero)

\* several pairs have been executed and hold values other than 0
SeveralPairsLearned ==
    Cardinality({p \in visited : Q[p[1]][p[2]] # RZero}) >= 3

\* C5: learn never calls _choose_action on a state the environment reports
\* as terminal, neither on the initial state of an episode nor on the
\* successor state S_next of a step.
SelectorAvoidsTerminal == selOn = NoState \/ ~is_terminal_state(selOn)

\* C6, as claimed: every action that a step executes was drawn after the
\* policy refresh that followed the preceding Q update; no refresh lies
\* between the draw of an action and its execution.
DrawnAfterPrecedingRefresh == execLag \in {NoLag, 0}

\* C6, as the code has it: each step's update and refresh are complete before
\* the next step begins; QLearningAgent draws the action it executes inside
\* the step, from the policy just refreshed; SarsaAgent and
\* ExpectedSarsaAgent execute in every step but the first of an episode the
\* A_next drawn during the step before, ahead of that step's update and
\* refresh, so that exactly one refresh lies between draw and execution.
ExecutedActionAge ==
    [][IsStep =>
        execLag' = IF kind = QLearningAgent \/ execLag = NoLag THEN 0 ELSE 1
      ]_vars

\* SarsaAgent has executed an action drawn before the latest refresh
SarsaExecutedOlderDraw == kind = SarsaAgent /\ execLag = 1 /\ steps >= 2

\* C7: a step that leads to a terminal S_next still updates Q[S,A] and moves
\* on to S_next, where the loop test stops the episode, and no error is
\* raised, also when the terminal S_next has no legal action (the estimate
\* is then 0), for all three agents.
FinalUpdateWithoutError ==
    (ex # NoPair /\ is_terminal_state(ExecuteAction(ex[1], ex[2])[1])) =>
        /\ err = ""
        /\ pc = "while"
        /\ S = ExecuteAction(ex[1], ex[2])[1]

\* C8: following the printed greedy policy from any non-terminal state
\* reaches (1, 4).  The policy is deterministic: a walk that has made as many
\* moves as there are states without arriving has repeated a state and never
\* arrives.
PrintedPolicyReachesGoal == Len(result) >= Len(get_states) => state = Goal

\* the states an episode can be in when it starts in one of the states X
RECURSIVE Reach(_)
Reach(X) ==
    LET Y == X \cup {ExecTable[p][1] :
                        p \in {q \in GridPairs : q[1] \in X
                                                 /\ ~is_terminal_state(q[1])}}
    IN  IF Y = X THEN X ELSE Reach(Y)
ReachableFromStart == Reach({Start})
CanReachGoal == {s \in States : Goal \in Reach({s})}

\* C9: with epsilon > 0 and under fair sampling learn(num_samples, (0, 0))
\* returns, for every agent: the goal can be reached from every state
\* reachable from (0, 0), an episode ends only in (1, 4), and exactly
\* num_samples episodes are run, each from (0, 0).
LearnTerminates ==
    /\ <>(pc = "done")
    /\ [](pc = "done" => ep = num_samples /\ err = "")
    /\ [][ep' # ep => ep < num_samples /\ ep' = ep + 1 /\ S' = Start]_vars
    /\ [][(pc = "while" /\ pc' # "while") => S = Goal /\ pc' = "for"]_vars
    /\ [](S # NoState => S \in ReachableFromStart \cap CanReachGoal)

\* learn has returned after its last episode ended in the goal
AllEpisodesRun == pc = "done" /\ ep = MaxSamples /\ S = Goal

\* the four states that no episode from (0, 0) enters
Unvisitable == {<<1, 3>>, <<2, 2>>, <<2, 3>>, <<2, 4>>}

\* C10: in an episode from (0, 0), whatever is drawn, (1, 3), (2, 2), (2, 3)
\* and (2, 4) are never the current state of a step; their Q entries stay 0
\* and their greedy action is the one the tie-break of _find_best_action
\* picks among equal values (the arrow the notebook prints there).
NeverVisited ==
    initial_state = Start =>
        /\ S \notin Unvisitable
        /\ \A p \in visited : p[1] \notin Unvisitable
        /\ Unvisitable \cap ReachableFromStart = {}
        /\ \A s \in Unvisitable :
              /\ \A a \in Legal(s) : Q[s][a] = RZero
              /\ _find_best_action(Q, s) = QAItems(s)[1]
              /\ _find_best_action(Q, s) = Printed(s)

\* an episode from (0, 0) stands next to the four states, and has learned
AtTheEdge == initial_state = Start /\ S = <<1, 2>> /\ Q # InitQ

====
